---- MODULE Spec2Model ----
(***************************************************************************)
(* Conversation-session management of the chat backend (src/app.py).       *)
(*                                                                         *)
(* The state is the process configuration (redis_enabled, search_client),  *)
(* the in-memory dict conversations_memory, the Python heap of list        *)
(* objects that dict and the request handlers refer to, the content of the *)
(* Redis server, and the request threads of the server.  app.run serves    *)
(* every request in a thread of its own and app.py takes no lock, so the   *)
(* handlers of two requests interleave: a step of the model is what one    *)
(* thread does between two points where it can be switched (a network      *)
(* call, a function call).                                                 *)
(* Python lists are objects: conversations_memory holds references, and a  *)
(* handler that got its list from conversations_memory appends to the very *)
(* object the dict holds.  json.loads and create_new_conversation build    *)
(* fresh objects.                                                          *)
(*                                                                         *)
(* Every request is authenticated (auth.login_required has passed).  The   *)
(* embedding, search, completion and Redis calls are external: each call   *)
(* either returns or raises, chosen by the environment.  A Redis call that *)
(* raises is one that did not reach the server.                            *)
(***************************************************************************)
EXTENDS Integers, Sequences, FiniteSets, TLC

VARIABLES
    redis_enabled,          \* app.py:66-82, fixed at start-up
    search_client,          \* app.py:52-62, TRUE iff a SearchClient was built
    conversations_memory,   \* app.py:87, dict: identifier -> reference (0: no key)
    heap,                   \* list objects: reference -> sequence of Turns
    redis,                  \* Redis server: key -> <<>> or <<[val, ttl]>>
    threads,                \* request threads of the server: where each one is in its handler
    served,                 \* requests the server has taken up so far
    last                    \* the step just taken: its thread, its calls, the response if it sent one

vars == <<redis_enabled, search_client, conversations_memory, heap, redis, threads, served, last>>

---------------------------------------------------------------------------
(* Bounds of the model *)

\* Most requests the threads of the server take up, all threads together.
MaxRequests == 2

(* Program constants *)

\* setex(..., 604800, ...): time-to-live of a Redis entry, in seconds.
TTL == 604800

\* "k": 3, the number of nearest neighbours the search returns at most.
K == 3

---------------------------------------------------------------------------
(* JSON values of a request body, and Python's view of them.  The text of  *)
(* a message is a string; the text of a query is a sequence of code        *)
(* points, because the handler looks at its characters.                    *)

Str(s) == [t |-> "str", s |-> s]
JList == [t |-> "list", s |-> ""]      \* a JSON array
JInt == [t |-> "int", s |-> <<>>]      \* a JSON number, where a query is expected
JNull == [t |-> "null", s |-> <<>>]    \* JSON null (None), where a query is expected

\* A truth test that only asks for a string.
Truthy_any_string(v) == v.t = "str"

\* bool(v): the empty string and None are falsy.
Truthy(v) == v.t = "str" /\ v.s # ""

\* hash(v) is defined: a list cannot be a dict key.
Hashable(v) == v.t # "list"

\* str(v), as an f-string formats it.
Format(v) == IF v.t = "str" THEN v.s ELSE IF v.t = "list" THEN "[]" ELSE "None"

\* An optional value: <<>> is "no such key" / None, <<v>> is v.
Absent == <<>>
Present(v) == <<v>>

\* dict.get(key, default) on an optional field.
dict_get(field, default) == IF field = Absent THEN default ELSE field[1]

\* Outcomes of an external call.
Outcomes == {"ok", "raise"}

---------------------------------------------------------------------------
(* Turns and conversations *)

Turn(role, text) == [role |-> role, content |-> << [type |-> "text", text |-> text] >>]

\* The fixed system preamble.
Preamble == Turn("system", "You are an AI assistant that helps people find information.")

\* A create_new_conversation whose first Turn lost its text.
create_new_conversation_blank == << Turn("system", "") >>

\* create_new_conversation's list literal.
create_new_conversation == << Preamble >>

\* The Turn chat appends for a non-empty context.
ContextTurn(context) == Turn("system", "Relevant context from documents:\n" \o context)

UserTurn(user_message) == Turn("user", user_message)

AssistantTurn(assistant_message) == Turn("assistant", assistant_message)

---------------------------------------------------------------------------
(* json.dumps / json.loads of a conversation.  A JSON text is modelled as  *)
(* its sequence of lexical tokens: a token is punctuation, or a string     *)
(* literal (what stands between quotes).  A Turn is written as             *)
(* { "role" ("type" "text")* }.                                            *)

\* Punctuation.
Punct(s) == [quoted |-> FALSE, s |-> s]

\* A string literal.
Quoted(s) == [quoted |-> TRUE, s |-> s]

RECURSIVE dumps_content(_)
dumps_content(content) ==
    IF content = <<>> THEN <<>>
    ELSE <<Quoted(content[1].type), Quoted(content[1].text)>> \o dumps_content(Tail(content))

RECURSIVE json_dumps(_)
json_dumps(conversation_data) ==
    IF conversation_data = <<>> THEN <<>>
    ELSE <<Punct("{"), Quoted(conversation_data[1].role)>>
         \o dumps_content(conversation_data[1].content)
         \o <<Punct("}")>>
         \o json_dumps(Tail(conversation_data))

\* Index of the first closing brace at or after position i; a string literal
\* that reads "}" is no brace.
RECURSIVE CloseAt(_, _)
CloseAt(toks, i) == IF toks[i] = Punct("}") THEN i ELSE CloseAt(toks, i + 1)

RECURSIVE loads_content(_)
loads_content(toks) ==
    IF toks = <<>> THEN <<>>
    ELSE << [type |-> toks[1].s, text |-> toks[2].s] >> \o loads_content(SubSeq(toks, 3, Len(toks)))

\* A json.loads that loses the text of every content segment.
RECURSIVE json_loads_text_lost(_)
json_loads_text_lost(toks) ==
    IF toks = <<>> THEN <<>>
    ELSE LET c == CloseAt(toks, 3)
         IN  << [role |-> toks[2].s,
                 content |-> [n \in 1 .. ((c - 3) \div 2) |->
                                [type |-> toks[2 * n + 1].s, text |-> ""]]] >>
             \o json_loads_text_lost(SubSeq(toks, c + 1, Len(toks)))

RECURSIVE json_loads(_)
json_loads(toks) ==
    IF toks = <<>> THEN <<>>
    ELSE LET c == CloseAt(toks, 3)
         IN  << [role |-> toks[2].s, content |-> loads_content(SubSeq(toks, 3, c - 1))] >>
             \o json_loads(SubSeq(toks, c + 1, Len(toks)))

---------------------------------------------------------------------------
(* Identifiers, keys, the heap *)

\* The keys conversations_memory may have: the default identifier and a
\* client-supplied one.
Ids == {"default", "a"}

\* conversation_id values a body may carry.
ConvIdValues == {Str(i) : i \in Ids} \cup {JList}

\* A key that leaves the identifier out.
Key_shared(conversation_id) == "conv:"

\* f"conv:{conversation_id}"
Key(conversation_id) == "conv:" \o Format(conversation_id)

RedisKeys == {Key(v) : v \in ConvIdValues}

\* Threads of the server that handle requests at the same time.
Threads == {1, 2}

\* References to list objects; 0 is None.  One object per dict entry and one
\* for every request being handled.
Refs == 1 .. (Cardinality(Ids) + Cardinality(Threads))

\* A reference no live object has (a live list of this program is never empty).
NewRef(hp) == CHOOSE r \in Refs : hp[r] = <<>> /\ \A q \in Refs : hp[q] = <<>> => r <= q

\* References are compared for identity only, so a state is kept up to their
\* renaming: the list of a dict entry has the reference of its identifier.
RefOf(i) == IF i = "default" THEN 1 ELSE 2

\* The store a handler works on.
Store == [mem |-> conversations_memory, heap |-> heap, redis |-> redis]

---------------------------------------------------------------------------
(* Session store: app.py:89-120.  Each function of the store is a sequence *)
(* of accesses to conversations_memory and to Redis; a thread can be       *)
(* switched between two of them.  Every access is an operator that takes   *)
(* the store S, the conversation_id and, for Redis, the outcome o of the   *)
(* call, and returns what it yields, whether it raised, the part of the    *)
(* store it changed and the Redis call made ("none": no call).  The        *)
(* functions are their accesses one after the other.                       *)

\* get_conversation, the Redis part: `cached = redis_client.get(key)` inside
\* the try; a call that raises leaves no cached value.
redis_get(S, conversation_id, o) ==
    IF redis_enabled /\ o = "ok"
    THEN [cached |-> IF S.redis[Key(conversation_id)] = Absent THEN Absent
                     ELSE Present(S.redis[Key(conversation_id)][1].val),
          call |-> "ok"]
    ELSE [cached |-> Absent, call |-> IF redis_enabled THEN o ELSE "none"]

\* get_conversation, `return conversations_memory.get(conversation_id)`:
\* the dict's own list, None (0), or TypeError for a key that cannot be
\* hashed.
memory_get(S, conversation_id) ==
    IF ~Hashable(conversation_id)
    THEN [raised |-> TRUE, ret |-> 0]
    ELSE [raised |-> FALSE, ret |-> S.mem[conversation_id.s]]

\* get_conversation.  ret is None (Absent) or the Turns of the list
\* returned; the list is a fresh one (json.loads) or the dict's own (ref).
get_conversation(S, conversation_id, o) ==
    LET c == redis_get(S, conversation_id, o)
    IN  IF c.cached # Absent
        THEN [raised |-> FALSE, fresh |-> TRUE, ref |-> 0,
              ret |-> Present(json_loads(c.cached[1])), call |-> c.call]
        ELSE LET m == memory_get(S, conversation_id)
             IN  [raised |-> m.raised, fresh |-> FALSE, ref |-> m.ret,
                  ret |-> IF m.raised \/ m.ret = 0 THEN Absent ELSE Present(S.heap[m.ret]),
                  call |-> c.call]

\* save_conversation, `conversations_memory[conversation_id] =
\* conversation_data`.
memory_set(S, conversation_id, conversation_data) ==
    IF ~Hashable(conversation_id)
    THEN [raised |-> TRUE, mem |-> S.mem]
    ELSE [raised |-> FALSE, mem |-> [S.mem EXCEPT ![conversation_id.s] = conversation_data]]

\* A setex outside the try: its failure propagates.
redis_setex_unguarded(S, conversation_id, value, o) ==
    IF ~redis_enabled
    THEN [raised |-> FALSE, ret |-> FALSE, redis |-> S.redis, call |-> "none"]
    ELSE IF o = "ok"
    THEN [raised |-> FALSE, ret |-> TRUE,
          redis |-> [S.redis EXCEPT ![Key(conversation_id)] =
                       Present([val |-> value, ttl |-> TTL])],
          call |-> "ok"]
    ELSE [raised |-> TRUE, ret |-> FALSE, redis |-> S.redis, call |-> "raise"]

\* A setex after which save_conversation returns True whenever Redis is
\* enabled, also when the write raised.
redis_setex_true(S, conversation_id, value, o) ==
    IF ~redis_enabled
    THEN [raised |-> FALSE, ret |-> FALSE, redis |-> S.redis, call |-> "none"]
    ELSE IF o = "ok"
    THEN [raised |-> FALSE, ret |-> TRUE,
          redis |-> [S.redis EXCEPT ![Key(conversation_id)] =
                       Present([val |-> value, ttl |-> TTL])],
          call |-> "ok"]
    ELSE [raised |-> FALSE, ret |-> TRUE, redis |-> S.redis, call |-> "raise"]

\* save_conversation, the Redis part: `redis_client.setex(key, 604800,
\* value)` inside the try, and the return that follows; value is
\* json.dumps(conversation_data), evaluated before the call is made.
redis_setex(S, conversation_id, value, o) ==
    IF ~redis_enabled
    THEN [raised |-> FALSE, ret |-> FALSE, redis |-> S.redis, call |-> "none"]
    ELSE IF o = "ok"
    THEN [raised |-> FALSE, ret |-> TRUE,
          redis |-> [S.redis EXCEPT ![Key(conversation_id)] =
                       Present([val |-> value, ttl |-> TTL])],
          call |-> "ok"]
    ELSE [raised |-> FALSE, ret |-> FALSE, redis |-> S.redis, call |-> "raise"]

\* save_conversation.
save_conversation(S, conversation_id, conversation_data, o) ==
    LET m == memory_set(S, conversation_id, conversation_data)
    IN  IF m.raised
        THEN [raised |-> TRUE, ret |-> FALSE, mem |-> S.mem, redis |-> S.redis, call |-> "none"]
        ELSE LET r == redis_setex(S, conversation_id, json_dumps(S.heap[conversation_data]), o)
             IN  [raised |-> r.raised, ret |-> r.ret, mem |-> m.mem, redis |-> r.redis,
                  call |-> r.call]

\* A del that leaves the entry in the dict.
memory_del_kept(S, conversation_id) ==
    IF ~Hashable(conversation_id)
    THEN [raised |-> TRUE, mem |-> S.mem]
    ELSE [raised |-> FALSE, mem |-> S.mem]

\* delete_conversation, `if conversation_id in conversations_memory: del
\* conversations_memory[conversation_id]`.  No call lies between the test and
\* the del, and the interpreter does not switch threads between them.
memory_del(S, conversation_id) ==
    IF ~Hashable(conversation_id)
    THEN [raised |-> TRUE, mem |-> S.mem]
    ELSE [raised |-> FALSE, mem |-> [S.mem EXCEPT ![conversation_id.s] = 0]]

\* A Redis delete outside the try: its failure propagates.
redis_delete_unguarded(S, conversation_id, o) ==
    IF ~redis_enabled
    THEN [raised |-> FALSE, ret |-> FALSE, redis |-> S.redis, call |-> "none"]
    ELSE IF o = "ok"
    THEN [raised |-> FALSE, ret |-> TRUE,
          redis |-> [S.redis EXCEPT ![Key(conversation_id)] = Absent], call |-> "ok"]
    ELSE [raised |-> TRUE, ret |-> FALSE, redis |-> S.redis, call |-> "raise"]

\* delete_conversation, the Redis part: `redis_client.delete(key)` inside the
\* try, and the return that follows.
redis_delete(S, conversation_id, o) ==
    IF ~redis_enabled
    THEN [raised |-> FALSE, ret |-> FALSE, redis |-> S.redis, call |-> "none"]
    ELSE IF o = "ok"
    THEN [raised |-> FALSE, ret |-> TRUE,
          redis |-> [S.redis EXCEPT ![Key(conversation_id)] = Absent], call |-> "ok"]
    ELSE [raised |-> FALSE, ret |-> FALSE, redis |-> S.redis, call |-> "raise"]

\* delete_conversation.
delete_conversation(S, conversation_id, o) ==
    LET m == memory_del(S, conversation_id)
    IN  IF m.raised
        THEN [raised |-> TRUE, ret |-> FALSE, mem |-> S.mem, redis |-> S.redis, call |-> "none"]
        ELSE LET r == redis_delete(S, conversation_id, o)
             IN  [raised |-> r.raised, ret |-> r.ret, mem |-> m.mem, redis |-> r.redis,
                  call |-> r.call]

---------------------------------------------------------------------------
(* Context retrieval: app.py:136-160.  x is what the embedding and search  *)
(* services do: [embed, search \in Outcomes, hits: the chunks returned].   *)

\* "\n\n".join(chunks)
RECURSIVE Join(_)
Join(chunks) ==
    IF chunks = <<>> THEN ""
    ELSE IF Len(chunks) = 1 THEN chunks[1]
    ELSE chunks[1] \o "\n\n" \o Join(Tail(chunks))

\* A retrieve_context that hands the error text back as context.
retrieve_context_error_text(user_query, x) ==
    IF ~search_client
    THEN [ret |-> "", call |-> "none"]
    ELSE IF x.embed = "raise" \/ x.search = "raise"
    THEN [ret |-> "RAG retrieval error", call |-> "raise"]
    ELSE [ret |-> Join(x.hits), call |-> "ok"]

retrieve_context(user_query, x) ==
    IF ~search_client
    THEN [ret |-> "", call |-> "none"]
    ELSE IF x.embed = "raise" \/ x.search = "raise"
    THEN [ret |-> "", call |-> "raise"]
    ELSE [ret |-> Join(x.hits), call |-> "ok"]

---------------------------------------------------------------------------
(* Request bodies and responses *)

\* A body is a JSON object with optional fields ("object"), a JSON value
\* that is no object and is truthy in Python, such as [1], "x" or 5
\* ("value"), or it is missing, not JSON, or a falsy JSON value such as
\* null, [], 0, "" or false ("invalid").
Body(kind, message, conversation_id, query) ==
    [kind |-> kind, message |-> message, conversation_id |-> conversation_id, query |-> query]

InvalidBody == Body("invalid", Absent, Absent, Absent)

ValueBody == Body("value", Absent, Absent, Absent)

\* The external calls a handler made: "none", or the call's outcome.
NoCalls == [get |-> "none", retrieval |-> "none", completion |-> "none",
            setex |-> "none", delete |-> "none"]

\* list.append on the object a reference names.
AppendTurn(hp, conversation, turn) == [hp EXCEPT ![conversation] = Append(@, turn)]

\* `g or create_new_conversation()` for the list object g (0: None): None
\* and the empty list are falsy.
OrNew(hp, g) ==
    IF g = 0 \/ hp[g] = <<>>
    THEN LET r == NewRef(hp)
         IN  [conversation |-> r, heap |-> [hp EXCEPT ![r] = create_new_conversation]]
    ELSE [conversation |-> g, heap |-> hp]

---------------------------------------------------------------------------
(* POST /api/search: app.py:163-207.  A query is a sequence of code points. *)

\* The code points c with chr(c).isspace().
Whitespace ==
    {9, 10, 11, 12, 13, 28, 29, 30, 31, 32, 133, 160, 5760}
    \cup (8192 .. 8202) \cup {8232, 8233, 8239, 8287, 12288}

RECURSIVE lstrip(_)
lstrip(q) == IF q # <<>> /\ q[1] \in Whitespace THEN lstrip(Tail(q)) ELSE q

RECURSIVE rstrip(_)
rstrip(q) ==
    IF q # <<>> /\ q[Len(q)] \in Whitespace THEN rstrip(SubSeq(q, 1, Len(q) - 1)) ELSE q

\* A strip that strips nothing.
strip_nothing(q) == q

\* str.strip()
strip(q) == rstrip(lstrip(q))

\* What a handler answers.  The error "exception" is the text of an
\* exception the handler caught; "unhandled" is the answer of the framework
\* to an exception the handler let through (status 500, no JSON error body
\* of the handler).
Answer(status, storage, error, response, calls) ==
    [status |-> status, storage |-> storage, error |-> error, response |-> response,
     calls |-> calls]

vector_search(body, x) ==
    IF body.kind = "value"
    THEN \* data.get on a list, a string or a number: AttributeError, outside the try
         Answer(500, "", "unhandled", "", NoCalls)
    ELSE
    LET \* data = request.get_json(silent=True) or {}
        data == IF body.kind = "object" THEN body ELSE Body("object", Absent, Absent, Absent)
        field == dict_get(data.query, Str(<<>>))
    IN
    IF field.t # "str"
    THEN \* .strip() on None, a number or a list: AttributeError, outside the try
         Answer(500, "", "unhandled", "", NoCalls)
    ELSE
    LET query == strip(field.s)
    IN
    IF query = <<>>
    THEN Answer(400, "", "query is required", "", NoCalls)
    ELSE IF ~search_client
    THEN Answer(500, "", "RAG search is not configured", "", NoCalls)
    ELSE IF x.embed = "raise" \/ x.search = "raise"
    THEN Answer(500, "", "exception", "", [NoCalls EXCEPT !.retrieval = "raise"])
    ELSE Answer(200, "", "", "", [NoCalls EXCEPT !.retrieval = "ok"])

---------------------------------------------------------------------------
(* Inputs *)

\* The message a thread's client sends: a word, or a text that reads like a
\* JSON brace.
ThreadMessage(t) == IF t = 1 THEN "hi" ELSE "}"

Replies == {"hello"}

\* Chunks the search may return, nearest first; at most K of them.
Hits == {h \in {<<>>, <<"">>, <<"c", "d">>} : Len(h) <= K}

\* What the embedding and the search service do during one retrieval.
RagOutcomes ==
    {[embed |-> "raise", search |-> "ok", hits |-> <<>>],
     [embed |-> "ok", search |-> "raise", hits |-> <<>>]}
    \cup {[embed |-> "ok", search |-> "ok", hits |-> h] : h \in Hits}

MessageFields(t) == {Absent, Present(Str("")), Present(Str(ThreadMessage(t)))}

\* conversation_id as the clients send it: omitted, the default identifier
\* spelled out, or a value that is no string.  A chat request that spells
\* the default identifier out is handled as one that omits it.
ConvIdFields == {Absent, Present(Str("default")), Present(JList)}

ChatConvIdFields == {Absent, Present(JList)}

\* query as the clients send it: omitted, blank (a space, a carriage
\* return, an em space), a word between a space and a no-break space, or a
\* value that is no string.
QueryFields ==
    {Absent, Present(Str(<<32>>)), Present(Str(<<13>>)), Present(Str(<<8195>>)),
     Present(Str(<<32, 120, 160>>)), Present(JInt), Present(JNull)}

ChatBodies(t) ==
    {InvalidBody, ValueBody}
    \cup {Body("object", m, i, Absent) : m \in MessageFields(t), i \in ChatConvIdFields}

ResetBodies ==
    {InvalidBody, ValueBody} \cup {Body("object", Absent, i, Absent) : i \in ConvIdFields}

SearchBodies ==
    {InvalidBody, ValueBody} \cup {Body("object", Absent, Absent, q) : q \in QueryFields}

\* Clients that use every identifier of Ids and send well-formed bodies.
ChatBodiesThreaded(t) ==
    {Body("object", Present(Str(ThreadMessage(t))), Present(Str(i)), Absent) : i \in Ids}

ResetBodiesThreaded == {Body("object", Absent, Present(Str(i)), Absent) : i \in Ids}

\* The clients of the server: those that use the default identifier and
\* send every kind of body ("default"), or those that use every identifier
\* ("every").
ChatBodiesOf(clients, t) ==
    IF clients = "default" THEN ChatBodies(t) ELSE ChatBodiesThreaded(t)

ResetBodiesOf(clients) == IF clients = "default" THEN ResetBodies ELSE ResetBodiesThreaded

\* What Redis does when called.
RedisOutcomes == IF redis_enabled THEN Outcomes ELSE {"none"}

\* What the retrieval services do when called; they are not called when no
\* search client was built.
RetrievalOutcomes ==
    IF search_client THEN RagOutcomes
    ELSE {[embed |-> "none", search |-> "none", hits |-> <<>>]}

\* A conversation an earlier run of the program left in Redis.
PriorConversation == <<Preamble, UserTurn("hi"), AssistantTurn("hello")>>

PriorEntries == {Absent, Present([val |-> json_dumps(PriorConversation), ttl |-> TTL])}

---------------------------------------------------------------------------
(* Threads and responses *)

\* A thread that is in no handler.  A thread's state is the position in its
\* handler (pc), the request (op, body), the handler's locals
\* (conversation_id, user_message, conversation, context, reply, and dumped:
\* the value of json.dumps(conversation_data) once it is evaluated) and a
\* record of what happened: the Turns get_conversation returned (loaded),
\* whether no other request was handled
\* at the same time (alone), whether its write to conversations_memory is
\* the most recent one under its identifier (latest), and whether another
\* chat request on its identifier, handled at the same time, has been
\* answered 200 (peer200).
Idle ==
    [pc |-> "idle", op |-> "none", body |-> InvalidBody,
     conversation_id |-> Str("default"), user_message |-> "",
     conversation |-> 0, loaded |-> Absent, context |-> "", reply |-> "", dumped |-> <<>>,
     alone |-> FALSE, latest |-> FALSE, peer200 |-> FALSE]

\* The thread is inside a handler.
InFlight(th) == th.pc # "idle"

\* What the step just taken did: the thread whose handler ran (0 before
\* any step), the external calls it made and, when it ended a request, the
\* response (op, status and the rest; op is "none" and status 0 for a step
\* that sent no response).  me is the handler state of thread t, a its
\* answer, turns the Turns of its conversation list when it answers.
Response(t, me, a, turns) ==
    [thread |-> t,
     op |-> me.op, body |-> me.body, status |-> a.status, storage |-> a.storage,
     error |-> a.error, response |-> a.response, calls |-> a.calls,
     context |-> me.context, loaded |-> me.loaded, turns |-> turns,
     alone |-> me.alone, latest |-> me.latest, peer200 |-> me.peer200]

\* A step of thread t that sent no response and made the external calls
\* given.
NoResponse(t, calls) == Response(t, Idle, Answer(0, "", "", "", calls), Absent)

\* References are kept up to renaming: the list of a dict entry has the
\* entry's reference, a list only handlers hold has that of the first thread
\* holding it.
CanonRef(mem, th, r) ==
    IF r = 0 THEN 0
    ELSE IF \E i \in Ids : mem[i] = r
    THEN RefOf(CHOOSE i \in Ids : mem[i] = r)
    ELSE Cardinality(Ids)
         + (CHOOSE t \in Threads :
               /\ InFlight(th[t]) /\ th[t].conversation = r
               /\ \A u \in Threads :
                     (InFlight(th[u]) /\ th[u].conversation = r) => t <= u)

\* The references the dict or a handler holds.
Live(mem, th) ==
    ({mem[i] : i \in Ids} \cup {th[t].conversation : t \in {u \in Threads : InFlight(th[u])}})
    \ {0}

\* A step leaves memory mem, list objects hp, Redis rd, thread states th and
\* the response resp; a list that neither the dict nor a handler holds is
\* gone.
Leave(mem, hp, rd, th, resp) ==
    /\ conversations_memory' = [i \in Ids |-> CanonRef(mem, th, mem[i])]
    /\ heap' = [q \in Refs |->
                 IF \E r \in Live(mem, th) : CanonRef(mem, th, r) = q
                 THEN hp[CHOOSE r \in Live(mem, th) : CanonRef(mem, th, r) = q]
                 ELSE <<>>]
    /\ redis' = rd
    /\ threads' = [t \in Threads |->
                     [th[t] EXCEPT !.conversation =
                         IF InFlight(th[t]) THEN CanonRef(mem, th, @) ELSE 0]]
    /\ last' = resp
    /\ UNCHANGED <<redis_enabled, search_client>>

\* The threads when thread t takes up a request: a request that was being
\* handled alone no longer is.
Arrive(t) ==
    [u \in Threads |->
        IF u # t /\ InFlight(threads[u]) THEN [threads[u] EXCEPT !.alone = FALSE]
        ELSE threads[u]]

\* The handler state of a request that thread t takes up.
Taken(t, op, body) ==
    [Idle EXCEPT !.op = op, !.body = body,
                 !.alone = \A u \in Threads \ {t} : ~InFlight(threads[u])]

\* Thread t goes on in its handler with state me.
Continue(t, th, mem, hp, rd, me, calls) ==
    Leave(mem, hp, rd, [th EXCEPT ![t] = me], NoResponse(t, calls))

\* Thread t answers a and leaves its handler.
Respond(t, th, mem, hp, rd, me, a) ==
    Leave(mem, hp, rd,
          [u \in Threads |->
              IF u = t THEN Idle
              ELSE IF /\ me.op = "chat" /\ a.status = 200
                      /\ InFlight(th[u]) /\ th[u].op = "chat"
                      /\ th[u].conversation_id = me.conversation_id
              THEN [th[u] EXCEPT !.peer200 = TRUE]
              ELSE th[u]],
          Response(t, me, a, IF me.conversation = 0 THEN Absent ELSE Present(hp[me.conversation])))

\* The caught exception of a handler: status 500 with the exception's text.
Caught(calls) == Answer(500, "", "exception", "", calls)

---------------------------------------------------------------------------
(* The state machine.  POST /api/chat is app.py:215-279, POST /api/reset   *)
(* app.py:281-294.  A handler is cut where its thread waits for the        *)
(* network or enters a function, between two accesses to shared state:     *)
(*   chat   request .. redis_client.get | conversations_memory.get |       *)
(*          retrieve_context .. first append | append of the user Turn |   *)
(*          completion .. append of the assistant Turn |                   *)
(*          write to conversations_memory | json.dumps | setex .. response *)
(*   reset  request .. del | redis_client.delete .. response               *)
(* Without Redis, get_conversation, save_conversation and                  *)
(* delete_conversation are one access each.                                *)
(* The server has been running: at the start conversations_memory and      *)
(* Redis may each hold the conversation of an earlier chat under the       *)
(* default identifier (Redis alone after a restart, conversations_memory   *)
(* alone after a write to Redis that raised or an entry that expired).     *)
(* Runs are short against the time-to-live of a Redis entry: none expires  *)
(* during a run.                                                           *)

Init ==
    /\ redis_enabled \in BOOLEAN
    /\ search_client \in BOOLEAN
    /\ conversations_memory \in [Ids -> {0, RefOf("default")}]
    /\ \A i \in Ids : conversations_memory[i] # 0 => i = "default"
    /\ heap = [r \in Refs |->
                 IF \E i \in Ids : conversations_memory[i] = r THEN PriorConversation
                 ELSE <<>>]
    /\ redis \in [RedisKeys -> PriorEntries]
    /\ \A k \in RedisKeys : redis[k] # Absent => redis_enabled /\ k = Key(Str("default"))
    /\ threads = [t \in Threads |-> Idle]
    /\ served = 0
    /\ last = NoResponse(0, NoCalls)

\* get_conversation's `return conversations_memory.get(conversation_id)` and
\* chat's `or create_new_conversation()`.
Load(t, th, me) ==
    \E g \in {memory_get(Store, me.conversation_id)} :
        IF g.raised
        THEN Respond(t, th, conversations_memory, heap, redis, me, Caught(NoCalls))
        ELSE \E ld \in {OrNew(heap, g.ret)} :
                Continue(t, th, conversations_memory, ld.heap, redis,
                         [me EXCEPT !.pc = "loaded", !.conversation = ld.conversation,
                                    !.loaded = IF g.ret = 0 THEN Absent
                                               ELSE Present(heap[g.ret])],
                         NoCalls)

\* chat, from the request to get_conversation's Redis call: the body is
\* parsed and checked, then Redis answers with an entry (json.loads builds
\* the list), with none, or the call raises.  Without Redis the handler goes
\* on to conversations_memory at once.
ChatGet(t, clients) ==
    /\ ~InFlight(threads[t])
    /\ served < MaxRequests
    /\ served' = served + 1
    /\ \E body \in ChatBodiesOf(clients, t) :
         LET th == Arrive(t)
             me0 == Taken(t, "chat", body)
         IN
         IF body.kind # "object"
         THEN \* request.json raises, or data has no .get
              Respond(t, th, conversations_memory, heap, redis, me0, Caught(NoCalls))
         ELSE
         LET user_message == dict_get(body.message, Str(""))
             conversation_id == dict_get(body.conversation_id, Str("default"))
             me1 == [me0 EXCEPT !.conversation_id = conversation_id,
                                !.user_message = user_message.s]
         IN
         IF ~Truthy(user_message)
         THEN Respond(t, th, conversations_memory, heap, redis, me1,
                      Answer(400, "", "Message is required", "", NoCalls))
         ELSE IF ~redis_enabled
         THEN Load(t, th, me1)
         ELSE
         \E o \in Outcomes : \E c \in {redis_get(Store, conversation_id, o)} :
            LET calls == [NoCalls EXCEPT !.get = c.call]
            IN  IF c.cached # Absent
                THEN \E r \in {NewRef(heap)} :
                     \E ld \in {OrNew([heap EXCEPT ![r] = json_loads(c.cached[1])], r)} :
                        Continue(t, th, conversations_memory, ld.heap, redis,
                                 [me1 EXCEPT !.pc = "loaded",
                                             !.conversation = ld.conversation,
                                             !.loaded = Present(json_loads(c.cached[1]))],
                                 calls)
                ELSE Continue(t, th, conversations_memory, heap, redis,
                              [me1 EXCEPT !.pc = "miss"], calls)

\* chat, get_conversation after a Redis call that gave no entry.
ChatGetMemory(t) ==
    /\ threads[t].pc = "miss"
    /\ UNCHANGED served
    /\ Load(t, threads, threads[t])

\* chat, retrieve_context and the first append: the context Turn when the
\* context is not empty, else the user Turn.
ChatAppend(t) ==
    /\ threads[t].pc = "loaded"
    /\ UNCHANGED served
    /\ \E x \in RetrievalOutcomes :
         \E rc \in {retrieve_context(threads[t].user_message, x)} :
            LET me == [threads[t] EXCEPT !.context = rc.ret]
                calls == [NoCalls EXCEPT !.retrieval = rc.call]
            IN  IF rc.ret # ""
                THEN Continue(t, threads, conversations_memory,
                              AppendTurn(heap, me.conversation, ContextTurn(rc.ret)), redis,
                              [me EXCEPT !.pc = "context"], calls)
                ELSE Continue(t, threads, conversations_memory,
                              AppendTurn(heap, me.conversation, UserTurn(me.user_message)),
                              redis, [me EXCEPT !.pc = "asked"], calls)

\* chat, the append of the user Turn after the context Turn.
ChatAppendUser(t) ==
    /\ threads[t].pc = "context"
    /\ UNCHANGED served
    /\ LET me == threads[t]
       IN  Continue(t, threads, conversations_memory,
                    AppendTurn(heap, me.conversation, UserTurn(me.user_message)), redis,
                    [me EXCEPT !.pc = "asked"], NoCalls)

\* chat, the completion call: it raises (500), or the assistant Turn is
\* appended.
ChatComplete(t) ==
    /\ threads[t].pc = "asked"
    /\ UNCHANGED served
    /\ \E o \in Outcomes, reply \in Replies :
         LET me == threads[t]
             calls == [NoCalls EXCEPT !.completion = o]
         IN  IF o = "raise"
             THEN Respond(t, threads, conversations_memory, heap, redis, me, Caught(calls))
             ELSE Continue(t, threads, conversations_memory,
                           AppendTurn(heap, me.conversation, AssistantTurn(reply)), redis,
                           [me EXCEPT !.pc = "answered", !.reply = reply], calls)

\* save_conversation, `conversations_memory[conversation_id] =
\* conversation_data`; without Redis it returns False and chat answers.
ChatSaveMemory(t) ==
    /\ threads[t].pc = "answered"
    /\ UNCHANGED served
    /\ \E m \in {memory_set(Store, threads[t].conversation_id, threads[t].conversation)} :
         LET me == [threads[t] EXCEPT !.latest = TRUE]
             th == [u \in Threads |->
                      IF u # t /\ threads[u].conversation_id = me.conversation_id
                      THEN [threads[u] EXCEPT !.latest = FALSE]
                      ELSE threads[u]]
         IN  IF m.raised
             THEN Respond(t, threads, conversations_memory, heap, redis, threads[t],
                          Caught(NoCalls))
             ELSE IF redis_enabled
             THEN Continue(t, th, m.mem, heap, redis, [me EXCEPT !.pc = "stored"], NoCalls)
             ELSE Respond(t, th, m.mem, heap, redis, me,
                          Answer(200, "memory", "", me.reply, NoCalls))

\* save_conversation, the arguments of the setex call:
\* json.dumps(conversation_data) is evaluated on the list as it is now.
ChatDumps(t) ==
    /\ threads[t].pc = "stored"
    /\ UNCHANGED served
    /\ LET me == threads[t]
       IN  Continue(t, threads, conversations_memory, heap, redis,
                    [me EXCEPT !.pc = "dumped", !.dumped = json_dumps(heap[me.conversation])],
                    NoCalls)

\* save_conversation, the setex call, and the response of chat.
ChatSaveRedis(t) ==
    /\ threads[t].pc = "dumped"
    /\ UNCHANGED served
    /\ \E o \in Outcomes :
         \E r \in {redis_setex(Store, threads[t].conversation_id, threads[t].dumped, o)} :
            LET me == threads[t]
                calls == [NoCalls EXCEPT !.setex = r.call]
            IN  IF r.raised
                THEN Respond(t, threads, conversations_memory, heap, r.redis, me, Caught(calls))
                ELSE Respond(t, threads, conversations_memory, heap, r.redis, me,
                             Answer(200, IF r.ret THEN "redis" ELSE "memory", "", me.reply,
                                    calls))

\* reset_conversation, from the request to delete_conversation's `del
\* conversations_memory[conversation_id]`; without Redis it returns False
\* and reset answers.
ResetDeleteMemory(t, clients) ==
    /\ ~InFlight(threads[t])
    /\ served < MaxRequests
    /\ served' = served + 1
    /\ \E body \in ResetBodiesOf(clients) :
         LET th == Arrive(t)
             me0 == Taken(t, "reset", body)
         IN
         IF body.kind # "object"
         THEN Respond(t, th, conversations_memory, heap, redis, me0, Caught(NoCalls))
         ELSE
         LET me1 == [me0 EXCEPT !.conversation_id = dict_get(body.conversation_id, Str("default"))]
         IN
         \E m \in {memory_del(Store, me1.conversation_id)} :
            IF m.raised
            THEN Respond(t, th, conversations_memory, heap, redis, me1, Caught(NoCalls))
            ELSE IF redis_enabled
            THEN Continue(t, th, m.mem, heap, redis, [me1 EXCEPT !.pc = "deleted"], NoCalls)
            ELSE Respond(t, th, m.mem, heap, redis, me1,
                         Answer(200, "memory", "", "Conversation reset successfully",
                                NoCalls))

\* delete_conversation, the Redis delete, and the response of reset.
ResetDeleteRedis(t) ==
    /\ threads[t].pc = "deleted"
    /\ UNCHANGED served
    /\ \E o \in Outcomes :
         \E r \in {redis_delete(Store, threads[t].conversation_id, o)} :
            LET me == threads[t]
                calls == [NoCalls EXCEPT !.delete = r.call]
            IN  IF r.raised
                THEN Respond(t, threads, conversations_memory, heap, r.redis, me, Caught(calls))
                ELSE Respond(t, threads, conversations_memory, heap, r.redis, me,
                             Answer(200, IF r.ret THEN "redis" ELSE "memory", "",
                                    "Conversation reset successfully", calls))

\* vector_search: it touches neither conversations_memory nor Redis.
Search(t) ==
    /\ ~InFlight(threads[t])
    /\ served < MaxRequests
    /\ served' = served + 1
    /\ \E body \in SearchBodies, x \in RetrievalOutcomes :
         Respond(t, Arrive(t), conversations_memory, heap, redis,
                 Taken(t, "search", body), vector_search(body, x))

Next ==
    \E t \in Threads :
        \/ ChatGet(t, "default")
        \/ ChatGetMemory(t)
        \/ ChatAppend(t)
        \/ ChatAppendUser(t)
        \/ ChatComplete(t)
        \/ ChatSaveMemory(t)
        \/ ChatDumps(t)
        \/ ChatSaveRedis(t)
        \/ ResetDeleteMemory(t, "default")
        \/ ResetDeleteRedis(t)
        \/ Search(t)

Spec == Init /\ [][Next]_vars

\* The same server with clients that chat and reset on both identifiers of
\* Ids.
NextThreaded ==
    \E t \in Threads :
        \/ ChatGet(t, "every")
        \/ ChatGetMemory(t)
        \/ ChatAppend(t)
        \/ ChatAppendUser(t)
        \/ ChatComplete(t)
        \/ ChatSaveMemory(t)
        \/ ChatDumps(t)
        \/ ChatSaveRedis(t)
        \/ ResetDeleteMemory(t, "every")
        \/ ResetDeleteRedis(t)

SpecThreaded == Init /\ [][NextThreaded]_vars

---------------------------------------------------------------------------
(* What the claims speak about *)

\* The conversation_id and the message of the request just answered.
LastId == dict_get(last.body.conversation_id, Str("default"))

LastMessage == dict_get(last.body.message, Str(""))

\* What get_conversation(conversation_id) returns in store S when the Redis
\* call ends as o: Absent for None, else the list's Turns.
Returned(S, conversation_id, o) == get_conversation(S, conversation_id, o).ret

\* A conversation or, for None, the one-Turn conversation a chat starts from.
OrPreamble(c) == IF c = Absent THEN << Preamble >> ELSE c[1]

\* The store holds the same conversations as before.
StoreUnchanged == UNCHANGED <<conversations_memory, heap, redis>>

\* The list objects that exist.
Lists == {r \in Refs : heap[r] # <<>>}

\* The Turns a chat request adds: r is a thread's handler state or a
\* response, reply the text of the completion.
OwnTurns(r, user_message, reply) ==
    (IF r.context # "" THEN << ContextTurn(r.context) >> ELSE << >>)
    \o << UserTurn(user_message), AssistantTurn(reply) >>

\* Thread t took the step: its handler ran, also when it took a request up
\* and answered it within the step.
Stepped(t) == last'.thread = t

---------------------------------------------------------------------------
\* C1: once a reset on an identifier has returned, an immediately following
\* get_conversation on that identifier returns absent, whatever Redis did
\* during the delete and whatever it does during the get.  (Stated for a
\* reset handled with no other request at the same time.)
C1_ResetThenGetAbsent ==
    (last.op = "reset" /\ last.status = 200 /\ last.alone) =>
        \A o \in RedisOutcomes : Returned(Store, LastId, o) = Absent

\* C2: if Redis is enabled but unreachable when save_conversation(id, c)
\* runs, save returns false, conversations_memory holds c under id, and a
\* following get_conversation(id) returns c.  (Stated for every call of
\* save_conversation a chat request is about to make.)
C2_UnreachableSaveThenGet ==
    redis_enabled =>
        \A t \in Threads :
            threads[t].pc = "answered" =>
                LET id == threads[t].conversation_id
                    c  == threads[t].conversation
                    sv == save_conversation(Store, id, c, "raise")
                    S2 == [mem |-> sv.mem, heap |-> heap, redis |-> sv.redis]
                IN  /\ ~sv.raised
                    /\ ~sv.ret
                    /\ sv.mem[id.s] = c
                    /\ \A o \in RedisOutcomes : Returned(S2, id, o) = Present(heap[c])

\* C3: after a chat request that returned 200 and was handled with no other
\* request at the same time, get_conversation returns a conversation longer
\* than the one the request got by exactly 2 Turns when the context was
\* empty and by exactly 3 when it was not (None counting as the one-Turn
\* preamble conversation).
C3_ChatAddsTwoOrThree ==
    (last.op = "chat" /\ last.status = 200 /\ last.alone) =>
        \A o \in RedisOutcomes :
            Len(OrPreamble(Returned(Store, LastId, o)))
              = Len(OrPreamble(last.loaded)) + (IF last.context = "" THEN 2 ELSE 3)

\* C4: a chat request whose message is empty or absent returns 400, calls
\* neither the retriever nor the completion service nor Redis, and leaves
\* conversations_memory, every list and Redis as they were.
C4_EmptyMessageRejected ==
    [][ (/\ last'.op = "chat"
         /\ last'.body.kind = "object"
         /\ last'.body.message \in {Absent, Present(Str(""))}) =>
          /\ last'.status = 400
          /\ last'.error = "Message is required"
          /\ last'.calls = NoCalls
          /\ StoreUnchanged ]_vars

\* C4's case: a request with the empty message has been answered 400 while
\* the dict and Redis both held a conversation and another request was
\* being handled.
C4_Witness ==
    /\ last.op = "chat"
    /\ last.body.kind = "object"
    /\ last.body.message = Present(Str(""))
    /\ last.status = 400
    /\ conversations_memory["default"] # 0
    /\ redis[Key(Str("default"))] # Absent
    /\ \E t \in Threads : threads[t].pc = "asked"

\* C5: every conversation conversations_memory or Redis holds, and every
\* list a handler works on, is non-empty and starts with the system
\* preamble; for an identifier neither of them knows get_conversation
\* returns None; a chat request that returned 200 has saved a conversation
\* that starts with the preamble.
C5_PreambleFirst ==
    /\ \A i \in Ids :
          conversations_memory[i] # 0 =>
              /\ heap[conversations_memory[i]] # <<>>
              /\ heap[conversations_memory[i]][1] = Preamble
    /\ \A r \in Lists : heap[r][1] = Preamble
    /\ \A k \in RedisKeys :
          redis[k] # Absent =>
              /\ json_loads(redis[k][1].val) # <<>>
              /\ json_loads(redis[k][1].val)[1] = Preamble
    /\ \A i \in Ids :
          (conversations_memory[i] = 0 /\ redis[Key(Str(i))] = Absent) =>
              \A o \in RedisOutcomes : Returned(Store, Str(i), o) = Absent
    /\ (last.op = "chat" /\ last.status = 200) =>
          /\ last.turns # Absent
          /\ last.turns[1][1] = Preamble

\* C5's case: the first chat on an identifier nothing was stored under has
\* returned 200: the conversation it saved is the preamble and its Turns.
C5_Witness ==
    /\ last.op = "chat"
    /\ last.status = 200
    /\ last.loaded = Absent
    /\ last.calls.setex = "ok"
    /\ last.turns = Present(<<Preamble, UserTurn(LastMessage.s), AssistantTurn(last.response)>>)
    /\ Returned(Store, LastId, "ok") = last.turns

---------------------------------------------------------------------------
\* C6: failures of Redis are never surfaced.  get_conversation,
\* save_conversation and delete_conversation return normally on a string
\* identifier whatever the Redis call does; a chat or reset request is
\* answered with an error only when its body is no JSON object, its
\* conversation_id cannot be a dict key, its message is empty or its
\* completion call raised: never because a Redis call raised.
C6_RedisFailuresNotSurfaced ==
    /\ \A i \in Ids, o \in RedisOutcomes :
          /\ ~get_conversation(Store, Str(i), o).raised
          /\ ~delete_conversation(Store, Str(i), o).raised
          /\ \A c \in Lists : ~save_conversation(Store, Str(i), c, o).raised
    /\ (last.op \in {"chat", "reset"} /\ last.status # 200) =>
          \/ last.body.kind # "object"
          \/ ~Hashable(LastId)
          \/ last.op = "chat" /\ last.body.message \in {Absent, Present(Str(""))}
          \/ last.op = "chat" /\ last.calls.completion = "raise"

\* C6's case: a chat request has been answered 200 although its write to
\* Redis raised, and Redis holds nothing of it.
C6_Witness ==
    /\ last.op = "chat"
    /\ redis_enabled
    /\ last.calls.setex = "raise"
    /\ last.status = 200
    /\ redis[Key(LastId)] = Absent

\* C7: a chat request whose retrieval raised, or that runs without a search
\* client, gets the empty context and appends the user Turn, no context
\* Turn; when its completion call returns it appends the assistant Turn and
\* nothing else, writes its list to conversations_memory and answers 200.
C7_RetrievalFailureDegrades ==
    [][ \A t \in Threads :
          /\ (/\ threads[t].pc = "loaded" /\ Stepped(t)
              /\ last'.calls.retrieval \in {"none", "raise"}) =>
                /\ threads'[t].context = ""
                /\ threads'[t].pc = "asked"
                /\ heap'[threads'[t].conversation]
                     = Append(heap[threads[t].conversation], UserTurn(threads[t].user_message))
          /\ (/\ threads[t].pc = "asked" /\ Stepped(t) /\ threads[t].context = ""
              /\ last'.calls.completion = "ok") =>
                /\ threads'[t].pc = "answered"
                /\ heap'[threads'[t].conversation]
                     = Append(heap[threads[t].conversation], AssistantTurn(threads'[t].reply))
          /\ (/\ threads[t].pc = "answered" /\ Stepped(t) /\ threads[t].context = "") =>
                /\ conversations_memory'[threads[t].conversation_id.s] # 0
                /\ heap'[conversations_memory'[threads[t].conversation_id.s]]
                     = heap[threads[t].conversation]
          /\ (/\ threads[t].pc \in {"answered", "stored", "dumped"} /\ threads[t].context = ""
              /\ threads'[t].pc = "idle") =>
                last'.status = 200 ]_vars

\* C7's case: the retrieval of a chat request has just raised: the request
\* goes on with the empty context and its list ends with its user Turn.
C7_Witness ==
    /\ search_client
    /\ last.calls.retrieval = "raise"
    /\ \E t \in Threads :
          /\ threads[t].pc = "asked"
          /\ threads[t].context = ""
          /\ Len(heap[threads[t].conversation]) >= 4
          /\ heap[threads[t].conversation][Len(heap[threads[t].conversation])]
               = UserTurn(threads[t].user_message)

\* C8 as claimed: every reset request is answered 200 with a storage label.
C8_ResetAlways200 ==
    last.op = "reset" => (last.status = 200 /\ last.storage \in {"redis", "memory"})

\* C8, amended: a reset request whose body is a JSON object with
\* conversation_id omitted or a string is answered 200 with a message and a
\* storage label, whatever the Redis delete did and whether or not the
\* identifier had an entry; a request whose body is no JSON object, or whose
\* conversation_id is a JSON array, is answered 500.
C8_ResetWellFormed200 ==
    last.op = "reset" =>
        IF /\ last.body.kind = "object"
           /\ last.body.conversation_id \in {Absent, Present(Str("default"))}
        THEN /\ last.status = 200
             /\ last.response = "Conversation reset successfully"
             /\ last.storage = (IF last.calls.delete = "ok" THEN "redis" ELSE "memory")
        ELSE last.status = 500 /\ last.error = "exception"

\* C8's case: a reset request on an identifier that had an entry has been
\* answered 200 although the Redis delete raised.
C8_Witness ==
    /\ last.op = "reset"
    /\ last.calls.delete = "raise"
    /\ last.status = 200
    /\ last.storage = "memory"
    /\ redis[Key(LastId)] # Absent

\* C9 as claimed: without a search client every search request is answered
\* 500 with an error text.
C9_Unconfigured500 ==
    (last.op = "search" /\ ~search_client) => (last.status = 500 /\ last.error # "")

\* C9, amended: without a search client a search request whose query is a
\* string with a character that is no whitespace is answered 500 "RAG
\* search is not configured"; one whose query is absent, empty or all
\* whitespace, or whose body is missing, not JSON or a falsy JSON value, is
\* answered 400 "query is required"; one whose body is a truthy JSON value
\* that is no object, or whose query is no string, ends in an exception the
\* handler does not catch (status 500 of the framework).
C9_Unconfigured500OrBlank400 ==
    (last.op = "search" /\ ~search_client) =>
        IF \/ last.body.kind = "value"
           \/ /\ last.body.kind = "object"
              /\ last.body.query # Absent
              /\ last.body.query[1].t # "str"
        THEN last.status = 500 /\ last.error = "unhandled"
        ELSE IF /\ last.body.kind = "object"
                /\ last.body.query # Absent
                /\ \E n \in DOMAIN last.body.query[1].s :
                      last.body.query[1].s[n] \notin Whitespace
        THEN last.status = 500 /\ last.error = "RAG search is not configured"
        ELSE last.status = 400 /\ last.error = "query is required"

\* C9's case: without a search client, a search request with a query that
\* has a letter between a space and a no-break space has been answered 500.
C9_Witness ==
    /\ last.op = "search"
    /\ ~search_client
    /\ last.body.query = Present(Str(<<32, 120, 160>>))
    /\ last.status = 500
    /\ last.error = "RAG search is not configured"

\* C10: save_conversation(id, c) writes c under id in conversations_memory
\* in every case and returns True exactly when Redis is enabled and the
\* setex of this call returned; the storage label of a chat response is
\* "redis" exactly when the setex of that request returned, and then Redis
\* holds an entry under its key with the fixed time-to-live; it is "memory"
\* when the setex raised or Redis is not enabled.
C10_StorageLabel ==
    /\ \A i \in Ids, o \in RedisOutcomes : \A c \in Lists :
          LET sv == save_conversation(Store, Str(i), c, o)
          IN  /\ sv.mem[i] = c
              /\ \A j \in Ids \ {i} : sv.mem[j] = conversations_memory[j]
              /\ sv.ret = (redis_enabled /\ o = "ok")
              /\ sv.ret => sv.redis[Key(Str(i))]
                             = Present([val |-> json_dumps(heap[c]), ttl |-> 604800])
              /\ ~sv.ret => sv.redis = redis
    /\ (last.op = "chat" /\ last.status = 200) =>
          /\ last.storage \in {"redis", "memory"}
          /\ last.storage = "redis" <=> (redis_enabled /\ last.calls.setex = "ok")
          /\ last.storage = "memory" <=> last.calls.setex \in {"raise", "none"}
          /\ last.calls.setex = "none" <=> ~redis_enabled
          /\ last.calls.setex = "ok" =>
                /\ redis[Key(LastId)] # Absent
                /\ redis[Key(LastId)][1].ttl = 604800

\* C10's case: a chat request has been answered 200 with the label "redis",
\* and Redis holds the conversation it saved.
C10_Witness ==
    /\ last.op = "chat"
    /\ last.status = 200
    /\ last.calls.setex = "ok"
    /\ last.storage = "redis"
    /\ last.turns # Absent
    /\ redis[Key(LastId)] = Present([val |-> json_dumps(last.turns[1]), ttl |-> 604800])

---------------------------------------------------------------------------
\* C11: delete_conversation(id) on a string identifier never raises, leaves
\* no entry of id in conversations_memory (whether or not there was one) and
\* every other entry as it was, and returns True exactly when Redis is
\* enabled and the Redis delete returned, which then has removed the Redis
\* entry; it returns False when Redis is not enabled or the delete raised,
\* and the Redis content is then as before.  In a reset request the step
\* that deletes from conversations_memory leaves no entry of the identifier,
\* and the storage label shows what delete_conversation returned.
C11_DeleteContract ==
    [][ /\ \A i \in Ids, o \in RedisOutcomes :
              LET d == delete_conversation(Store, Str(i), o)
              IN  /\ ~d.raised
                  /\ d.mem[i] = 0
                  /\ \A j \in Ids \ {i} : d.mem[j] = conversations_memory[j]
                  /\ d.ret = (redis_enabled /\ o = "ok")
                  /\ d.redis = IF d.ret THEN [redis EXCEPT ![Key(Str(i))] = Absent] ELSE redis
        /\ \A t \in Threads :
              (threads[t].pc = "idle" /\ threads'[t].pc = "deleted") =>
                  conversations_memory'[threads'[t].conversation_id.s] = 0
        /\ (last'.op = "reset" /\ last'.status = 200) =>
              /\ ~redis_enabled => conversations_memory'[LastId'.s] = 0
              /\ last'.storage = "redis" <=> (redis_enabled /\ last'.calls.delete = "ok")
              /\ last'.storage = "memory" <=> (~redis_enabled \/ last'.calls.delete = "raise")
              /\ last'.calls.delete = "ok" => redis'[Key(LastId')] = Absent
              /\ last'.calls.delete # "ok" => redis' = redis ]_vars

\* C11's case: a reset whose Redis delete raised has returned: the entry is
\* gone from conversations_memory while Redis still holds one.
C11_Witness ==
    /\ last.op = "reset"
    /\ last.calls.delete = "raise"
    /\ last.storage = "memory"
    /\ last.alone
    /\ conversations_memory["default"] = 0
    /\ redis[Key(Str("default"))] # Absent

\* C12: with Redis enabled and reachable, save_conversation(id, c) followed
\* by get_conversation(id) with nothing in between returns a conversation
\* equal to c, whatever conversations_memory and Redis held under id before;
\* json.loads undoes json.dumps on every list that exists, also on one with
\* a Turn whose text reads like a brace.
C12_RoundTrip ==
    /\ \A c \in Lists : json_loads(json_dumps(heap[c])) = heap[c]
    /\ redis_enabled =>
          \A i \in Ids : \A c \in Lists :
              LET sv == save_conversation(Store, Str(i), c, "ok")
                  S2 == [mem |-> sv.mem, heap |-> heap, redis |-> sv.redis]
              IN  /\ sv.ret
                  /\ Returned(S2, Str(i), "ok") = Present(heap[c])
    /\ (last.op = "chat" /\ last.status = 200 /\ last.calls.setex = "ok" /\ last.alone) =>
          Returned(Store, LastId, "ok") = last.turns

\* C12's case: a chat request whose message reads "}" has written its
\* conversation to Redis over what Redis held, and its five Turns come back.
C12_Witness ==
    /\ last.op = "chat"
    /\ last.status = 200
    /\ last.calls.setex = "ok"
    /\ LastMessage = Str("}")
    /\ last.turns # Absent
    /\ Len(last.turns[1]) = 5
    /\ last.turns[1][4] = UserTurn("}")
    /\ Returned(Store, LastId, "ok") = last.turns

---------------------------------------------------------------------------
\* C13: when two chat requests on one identifier were handled at the same
\* time and both were answered 200, conversations_memory holds under that
\* identifier the conversation of the request that saved last: what that
\* request loaded, followed by its own Turns and no others.  (Stated for the
\* request that saved last when it is also the one answered last.)
C13_LastSaveWins ==
    (last.op = "chat" /\ last.status = 200 /\ last.latest /\ last.peer200) =>
        /\ conversations_memory[LastId.s] # 0
        /\ heap[conversations_memory[LastId.s]]
             = OrPreamble(last.loaded) \o OwnTurns(last, LastMessage.s, last.response)

\* a is a prefix of b, for what get_conversation returns.  None counts on
\* neither side: only conversations returned are compared.
IsPrefix(a, b) ==
    \/ a = Absent
    \/ b = Absent
    \/ /\ Len(a[1]) <= Len(b[1])
       /\ SubSeq(b[1], 1, Len(a[1])) = a[1]

\* C14: a stored conversation is append-only: as long as no reset is
\* handled, the conversation get_conversation returns for an identifier
\* before a step is a prefix of the one it returns after it, under every
\* outcome of the two Redis gets.
C14_AppendOnly ==
    [][ (/\ last'.op # "reset"
         /\ \A t \in Threads : threads[t].op # "reset" /\ threads'[t].op # "reset") =>
          \A i \in Ids : \A o1 \in RedisOutcomes, o2 \in RedisOutcomes :
              IsPrefix(Returned(Store, Str(i), o1), Returned(Store', Str(i), o2)) ]_vars

\* C15: the conversation a chat request that returned 200 has saved is the
\* conversation it loaded (the preamble alone when it loaded None),
\* followed by its context Turn if and only if the context it retrieved is
\* not empty, then its user Turn, then its assistant Turn, and nothing else.
C15_TurnOrder ==
    (last.op = "chat" /\ last.status = 200) =>
        /\ last.turns # Absent
        /\ last.turns[1]
             = OrPreamble(last.loaded)
               \o (IF last.context # ""
                   THEN << Turn("system", "Relevant context from documents:\n" \o last.context) >>
                   ELSE << >>)
               \o << Turn("user", LastMessage.s), Turn("assistant", last.response) >>

\* C16: conversations_memory is authoritative: right after a chat request,
\* handled with no other request at the same time, has saved a conversation
\* under an identifier, get_conversation returns that conversation,
\* whatever the Redis calls of the save and of the get did.
C16_MemoryAuthoritative ==
    (last.op = "chat" /\ last.status = 200 /\ last.alone) =>
        \A o \in RedisOutcomes : Returned(Store, LastId, o) = last.turns

\* C17: a chat request answered 500 because the completion call raised,
\* handled with no other request at the same time, leaves the stored
\* conversation untouched: get_conversation returns after it what it
\* returned to the request.
C17_FailedChatLeavesStore ==
    (/\ last.op = "chat" /\ last.status = 500 /\ last.calls.completion = "raise"
     /\ last.alone) =>
        \E o \in RedisOutcomes : Returned(Store, LastId, o) = last.loaded

---------------------------------------------------------------------------
(* Isolation by identifier (SpecThreaded) *)

\* What conversations_memory and Redis hold under an identifier.
EntryOf(i) ==
    [memory |-> IF conversations_memory[i] = 0 THEN Absent
                ELSE Present(heap[conversations_memory[i]]),
     redis  |-> redis[Key(Str(i))]]

\* The identifier of the request whose handler took the step.
Acting ==
    LET t == CHOOSE u \in Threads : Stepped(u)
    IN  IF InFlight(threads[t]) THEN threads[t].conversation_id
        ELSE IF InFlight(threads'[t]) THEN threads'[t].conversation_id
        ELSE LastId'

\* C18: every step of a chat or a reset request on one identifier, in every
\* interleaving and under every outcome of its Redis call, leaves what
\* conversations_memory and Redis hold under every other identifier as it
\* was.
C18_Isolation ==
    [][ \A j \in Ids : Str(j) # Acting => EntryOf(j)' = EntryOf(j) ]_vars

\* C18's case: a chat request on "a" has been answered 200 with its
\* conversation in Redis while a chat request on "default" is being handled,
\* and the earlier conversation of "default" is still in conversations_memory
\* and in Redis.
C18_Witness ==
    /\ last.op = "chat"
    /\ last.status = 200
    /\ last.storage = "redis"
    /\ LastId = Str("a")
    /\ \E t \in Threads :
          /\ threads[t].op = "chat" /\ threads[t].pc = "loaded"
          /\ threads[t].conversation_id = Str("default")
    /\ EntryOf("default") = [memory |-> Present(PriorConversation),
                             redis |-> Present([val |-> json_dumps(PriorConversation),
                                                ttl |-> TTL])]
    /\ EntryOf("a").memory = last.turns

====
